---- MODULE Spec2Model ----
(***************************************************************************)
(* Model of onnxruntime/src/session.rs: the SessionBuilder and Session     *)
(* wrappers over the native inference C API.                               *)
(*                                                                         *)
(* The native library is modelled by the handles it hands out and by how   *)
(* often each was released; the answers of the native calls (statuses,     *)
(* returned pointers, reported counts and dimensions) are inputs of the    *)
(* actions.  Every method of the wrapper is one action: the method is an   *)
(* operator that yields the native calls it makes, in program order, and   *)
(* its return value; the action replays those calls on the native state.   *)
(***************************************************************************)
EXTENDS Integers, Sequences, FiniteSets, TLC

VARIABLES
    options,    \* options[h]: number of ReleaseSessionOptions calls on handle h
    sessions,   \* sessions[h]: number of ReleaseSession calls on session handle h
    stale,      \* TRUE once a native call received a released options handle
    builder,    \* the SessionBuilder the caller owns, if any
    session,    \* the Session the caller owns, if any
    result,     \* what the last call of the wrapper returned
    ncalls,     \* the native calls the last call of the wrapper made, in order
    io          \* the last call of dangerous::extract_io and what it was told

vars == <<options, sessions, stale, builder, session, result, ncalls, io>>

(***************************************************************************)
(* Bounds.                                                                 *)
(***************************************************************************)
MaxBuilders == 2
MaxSessions == 2
MaxInputs == 2
MaxOutputs == 2
MaxDims == 1

(***************************************************************************)
(* Values.                                                                 *)
(***************************************************************************)
NULL == 0

Status == {"null", "error"}

AllocatorTypes == {"Device", "Arena"}
MemTypes == {"CPUInput", "CPUOutput", "Default"}

Paths == {"model.onnx", "missing.onnx"}
ExistingFiles == {"model.onnx"}

\* A 64-bit word as four 16-bit limbs, most significant first.  An i64 is its
\* two's complement bit pattern, a u32 the two low limbs.
LimbTop == 2^16 - 1
I64MinusOne == <<LimbTop, LimbTop, LimbTop, LimbTop>>
Small(n) == <<0, 0, 0, n>>

NoBuilder ==
    [live |-> FALSE, session_options_ptr |-> NULL,
     allocator |-> "Arena", memory_type |-> "Default"]

NoSession ==
    [live |-> FALSE, session_ptr |-> NULL, allocator_ptr |-> NULL,
     memory_info |-> [allocator |-> "Arena", memory_type |-> "Default"],
     inputs |-> <<>>, outputs |-> <<>>]

NoResult == [fn |-> "none", kind |-> "none", err |-> "none", status |-> "none"]
NoIo == [fn |-> "none"]

(***************************************************************************)
(* The native library.                                                     *)
(***************************************************************************)
SessionCreators == {"CreateSession", "CreateSessionFromArray"}
OptionsUsers ==
    {"SetIntraOpNumThreads", "SetSessionGraphOptimizationLevel", "EpLoader"}
    \cup SessionCreators

\* One native call on the native state n = [options, sessions, stale].
\* A create call that succeeds hands out the next handle; releasing a null
\* pointer does nothing.
NativeCall(n, ev) ==
    CASE ev.op = "CreateSessionOptions" ->
            IF ev.out = NULL THEN n ELSE [n EXCEPT !.options = Append(@, 0)]
      [] ev.op = "ReleaseSessionOptions" ->
            IF ev.h = NULL THEN n ELSE [n EXCEPT !.options[ev.h] = @ + 1]
      [] ev.op \in OptionsUsers \ SessionCreators ->
            [n EXCEPT !.stale = @ \/ n.options[ev.h] > 0]
      [] ev.op \in SessionCreators ->
            [n EXCEPT !.stale = @ \/ n.options[ev.h] > 0,
                      !.sessions = IF ev.out = NULL THEN @ ELSE Append(@, 0)]
      [] ev.op = "ReleaseSession" ->
            IF ev.h = NULL THEN n ELSE [n EXCEPT !.sessions[ev.h] = @ + 1]

RECURSIVE Replay(_, _)
Replay(n, calls) ==
    IF calls = <<>> THEN n ELSE Replay(NativeCall(n, Head(calls)), Tail(calls))

Native == [options |-> options, sessions |-> sessions, stale |-> stale]

\* The handle the next successful CreateSessionOptions / CreateSession returns.
NextOptions == Len(options) + 1
NextSession == Len(sessions) + 1

(***************************************************************************)
(* error.rs helpers as session.rs uses them.                               *)
(***************************************************************************)
status_to_result(status) == status = "null"
assert_null_pointer(status) == status = "null"
assert_not_null_pointer(ptr) == ptr # NULL

Ok(fn, status) == [fn |-> fn, kind |-> "Ok", err |-> "none", status |-> status]
Err(fn, e, status) == [fn |-> fn, kind |-> "Err", err |-> e, status |-> status]

(***************************************************************************)
(* SessionBuilder.                                                         *)
(***************************************************************************)
\* A builder that was moved out of the caller's hands keeps its field values.
Moved(self) == [self EXCEPT !.live = FALSE]

\* Mutant of SessionBuilder_drop: the null test inverted.
SessionBuilder_drop_inverted(b) ==
    IF b.session_options_ptr # NULL
    THEN <<>>
    ELSE <<[op |-> "ReleaseSessionOptions", h |-> b.session_options_ptr]>>

\* impl Drop for SessionBuilder: the native calls of dropping builder b.
SessionBuilder_drop(b) ==
    IF b.session_options_ptr = NULL
    THEN <<>>
    ELSE <<[op |-> "ReleaseSessionOptions", h |-> b.session_options_ptr]>>

\* SessionBuilder::new; the native call answers status and session_options_ptr.
SessionBuilder_new(status, session_options_ptr) ==
    LET call == <<[op |-> "CreateSessionOptions", out |-> session_options_ptr]>>
        fn == "new"
    IN  IF ~status_to_result(status)
        THEN [calls |-> call, builder |-> NoBuilder,
              ret |-> Err(fn, "SessionOptions", status)]
        ELSE IF ~assert_null_pointer(status)
        THEN [calls |-> call, builder |-> NoBuilder,
              ret |-> Err(fn, "PointerShouldBeNull", status)]
        ELSE IF ~assert_not_null_pointer(session_options_ptr)
        THEN [calls |-> call, builder |-> NoBuilder,
              ret |-> Err(fn, "PointerShouldNotBeNull", status)]
        ELSE [calls |-> call,
              builder |-> [live |-> TRUE,
                           session_options_ptr |-> session_options_ptr,
                           allocator |-> "Arena", memory_type |-> "Default"],
              ret |-> Ok(fn, status)]

\* with_number_threads(self, _): self is dropped when Err is returned.
with_number_threads(self, status) ==
    LET call == <<[op |-> "SetIntraOpNumThreads", h |-> self.session_options_ptr]>>
        fn == "with_number_threads"
    IN  IF ~status_to_result(status)
        THEN [calls |-> call \o SessionBuilder_drop(self), builder |-> Moved(self),
              ret |-> Err(fn, "SessionOptions", status)]
        ELSE IF ~assert_null_pointer(status)
        THEN [calls |-> call \o SessionBuilder_drop(self), builder |-> Moved(self),
              ret |-> Err(fn, "PointerShouldBeNull", status)]
        ELSE [calls |-> call, builder |-> self,
              ret |-> Ok(fn, status)]

\* with_ep_loader(self, init): init is called with the options pointer.
with_ep_loader(self, status) ==
    LET call == <<[op |-> "EpLoader", h |-> self.session_options_ptr]>>
        fn == "with_ep_loader"
    IN  IF ~status_to_result(status)
        THEN [calls |-> call \o SessionBuilder_drop(self), builder |-> Moved(self),
              ret |-> Err(fn, "Session", status)]
        ELSE IF ~assert_null_pointer(status)
        THEN [calls |-> call \o SessionBuilder_drop(self), builder |-> Moved(self),
              ret |-> Err(fn, "PointerShouldBeNull", status)]
        ELSE [calls |-> call, builder |-> self,
              ret |-> Ok(fn, status)]

\* with_optimization_level(self, _): the status of the native call is not read.
with_optimization_level(self, status) ==
    LET call == <<[op |-> "SetSessionGraphOptimizationLevel",
                   h |-> self.session_options_ptr]>>
    IN  [calls |-> call, builder |-> self,
         ret |-> Ok("with_optimization_level", status)]

with_allocator(self, allocator) ==
    [calls |-> <<>>, builder |-> [self EXCEPT !.allocator = allocator],
     ret |-> Ok("with_allocator", "none")]

with_memory_type(self, memory_type) ==
    [calls |-> <<>>, builder |-> [self EXCEPT !.memory_type = memory_type],
     ret |-> Ok("with_memory_type", "none")]

(***************************************************************************)
(* get_tensor_dimensions and mod dangerous.                                *)
(***************************************************************************)
None == <<>>
Some(v) == <<v>>

\* d as u32: the low 32 bits of the i64.
AsU32(d) == <<d[3], d[4]>>
\* v as usize (64-bit target): zero extension of the u32.
AsUsize(v) == <<0, 0, v[1], v[2]>>

\* get_tensor_dimensions: r answers GetDimensionsCount and GetDimensions.
get_tensor_dimensions(r) ==
    LET num_dims == Len(r.dims)
    IN  IF ~status_to_result(r.count) THEN [ok |-> FALSE, err |-> "GetDimensionsCount"]
        ELSE IF num_dims = 0 THEN [ok |-> FALSE, err |-> "InvalidDimensions"]
        ELSE IF ~status_to_result(r.dims_status) THEN [ok |-> FALSE, err |-> "GetDimensions"]
        ELSE [ok |-> TRUE, node_dims |-> r.dims]

\* The closure of extract_io that turns one native dimension into a stored one.
StoreDim(d) == IF d = I64MinusOne THEN None ELSE Some(AsU32(d))

\* dangerous::extract_io: r answers the native calls.  typeinfo counts the
\* type-info handles obtained, released the ReleaseTypeInfo calls made.
extract_io(r) ==
    LET dims == get_tensor_dimensions(r)
        got == status_to_result(r.typeinfo) /\ ~r.typeinfo_null
        fail(e) == [ok |-> FALSE, err |-> e,
                    typeinfo |-> IF got THEN 1 ELSE 0, released |-> 0]
    IN  IF ~status_to_result(r.typeinfo) THEN fail("GetTypeInfo")
        ELSE IF r.typeinfo_null THEN fail("PointerShouldNotBeNull")
        ELSE IF ~status_to_result(r.cast) THEN fail("CastTypeInfoToTensorInfo")
        ELSE IF r.tensor_info_null THEN fail("PointerShouldNotBeNull")
        ELSE IF ~status_to_result(r.elem) THEN fail("TensorElementType")
        ELSE IF r.elem_type = "UNDEFINED" THEN fail("UndefinedTensorElementType")
        ELSE IF ~dims.ok THEN fail(dims.err)
        ELSE [ok |-> TRUE, io_type |-> r.elem_type,
              dimensions |-> [j \in 1..Len(dims.node_dims) |-> StoreDim(dims.node_dims[j])],
              typeinfo |-> 1, released |-> 1]

\* dangerous::extract_io_name
extract_io_name(r) ==
    IF ~status_to_result(r.name) THEN [ok |-> FALSE, err |-> "InputName"]
    ELSE IF r.name_null THEN [ok |-> FALSE, err |-> "PointerShouldNotBeNull"]
    ELSE IF ~r.name_utf8 THEN [ok |-> FALSE, err |-> "StringConversion"]
    ELSE [ok |-> TRUE]

\* dangerous::extract_input and dangerous::extract_output for node response r.
extract_node(r) ==
    LET name == extract_io_name(r)
        e == extract_io(r.io)
    IN  IF ~name.ok THEN name
        ELSE IF ~e.ok THEN [ok |-> FALSE, err |-> e.err]
        ELSE [ok |-> TRUE, io_type |-> e.io_type, dimensions |-> e.dimensions]

\* dangerous::extract_io_count
extract_io_count(status, num_nodes) ==
    IF ~status_to_result(status) THEN [ok |-> FALSE, err |-> "InOutCount"]
    ELSE IF ~assert_null_pointer(status) THEN [ok |-> FALSE, err |-> "PointerShouldBeNull"]
    ELSE IF num_nodes = 0 THEN [ok |-> FALSE, err |-> "InOutCount"]
    ELSE [ok |-> TRUE, n |-> num_nodes]

\* (0..n).map(extract).collect::<Result<Vec<_>>>(): the first Err, or all.
collect(nodes) ==
    LET ex == [i \in 1..Len(nodes) |-> extract_node(nodes[i])]
        bad == {i \in 1..Len(nodes) : ~ex[i].ok}
    IN  IF bad # {}
        THEN [ok |-> FALSE, err |-> ex[CHOOSE i \in bad : \A k \in bad : i <= k].err]
        ELSE [ok |-> TRUE,
              items |-> [i \in 1..Len(nodes) |->
                            [io_type |-> ex[i].io_type, dimensions |-> ex[i].dimensions]]]

(***************************************************************************)
(* Committing a builder into a Session.                                    *)
(***************************************************************************)
\* What follows a successful CreateSession / CreateSessionFromArray in both
\* commit methods: the Session, or the error of the first step that fails.
\* r answers the native calls; self is the builder being committed.
commit_tail(self, session_ptr, r) ==
    LET allocator_ptr == IF r.alloc_null THEN NULL ELSE 1
        num_input_nodes == extract_io_count(r.in_count, Len(r.inputs))
        num_output_nodes == extract_io_count(r.out_count, Len(r.outputs))
        inputs == collect(r.inputs)
        outputs == collect(r.outputs)
    IN  IF ~status_to_result(r.alloc) THEN [ok |-> FALSE, err |-> "Allocator"]
        ELSE IF ~assert_null_pointer(r.alloc) THEN [ok |-> FALSE, err |-> "PointerShouldBeNull"]
        ELSE IF ~assert_not_null_pointer(allocator_ptr)
        THEN [ok |-> FALSE, err |-> "PointerShouldNotBeNull"]
        ELSE IF ~r.meminfo THEN [ok |-> FALSE, err |-> "CreateCpuMemoryInfo"]
        ELSE IF ~num_input_nodes.ok THEN num_input_nodes
        ELSE IF ~num_output_nodes.ok THEN num_output_nodes
        ELSE IF ~inputs.ok THEN inputs
        ELSE IF ~outputs.ok THEN outputs
        ELSE [ok |-> TRUE,
              session |-> [live |-> TRUE, session_ptr |-> session_ptr,
                           allocator_ptr |-> allocator_ptr,
                           memory_info |-> [allocator |-> "Arena",
                                            memory_type |-> "Default"],
                           inputs |-> inputs.items, outputs |-> outputs.items]]

\* Mutant of commit: the builder is released before the create call.
commit_release_first(self, fn, op, fresh, r) ==
    LET session_ptr == IF r.create = "null" /\ ~r.session_null THEN fresh ELSE NULL
        call == <<[op |-> op, h |-> self.session_options_ptr, out |-> session_ptr]>>
        tail == commit_tail(self, session_ptr, r)
        calls == SessionBuilder_drop(self) \o call
    IN  IF ~status_to_result(r.create)
        THEN [calls |-> calls, builder |-> Moved(self), session |-> NoSession,
              ret |-> Err(fn, "Session", r.create)]
        ELSE IF ~assert_null_pointer(r.create)
        THEN [calls |-> calls, builder |-> Moved(self), session |-> NoSession,
              ret |-> Err(fn, "PointerShouldBeNull", r.create)]
        ELSE IF ~assert_not_null_pointer(session_ptr)
        THEN [calls |-> calls, builder |-> Moved(self), session |-> NoSession,
              ret |-> Err(fn, "PointerShouldNotBeNull", r.create)]
        ELSE IF ~tail.ok
        THEN [calls |-> calls, builder |-> Moved(self), session |-> NoSession,
              ret |-> Err(fn, tail.err, r.create)]
        ELSE [calls |-> calls, builder |-> Moved(self), session |-> tail.session,
              ret |-> Ok(fn, r.create)]

\* The part the two commit methods share from the native create call on:
\* op is the create call, fresh the handle it returns when it succeeds.
\* self is dropped when the method returns, after every native call.
commit(self, fn, op, fresh, r) ==
    LET session_ptr == IF r.create = "null" /\ ~r.session_null THEN fresh ELSE NULL
        call == <<[op |-> op, h |-> self.session_options_ptr, out |-> session_ptr]>>
        tail == commit_tail(self, session_ptr, r)
        calls == call \o SessionBuilder_drop(self)
    IN  IF ~status_to_result(r.create)
        THEN [calls |-> calls, builder |-> Moved(self), session |-> NoSession,
              ret |-> Err(fn, "Session", r.create)]
        ELSE IF ~assert_null_pointer(r.create)
        THEN [calls |-> calls, builder |-> Moved(self), session |-> NoSession,
              ret |-> Err(fn, "PointerShouldBeNull", r.create)]
        ELSE IF ~assert_not_null_pointer(session_ptr)
        THEN [calls |-> calls, builder |-> Moved(self), session |-> NoSession,
              ret |-> Err(fn, "PointerShouldNotBeNull", r.create)]
        ELSE IF ~tail.ok
        THEN [calls |-> calls, builder |-> Moved(self), session |-> NoSession,
              ret |-> Err(fn, tail.err, r.create)]
        ELSE [calls |-> calls, builder |-> Moved(self), session |-> tail.session,
              ret |-> Ok(fn, r.create)]

\* Mutant of exists: the test of the path left out.
exists_always(model_filepath) == TRUE

\* Path::exists on the model file.
exists(model_filepath) == model_filepath \in ExistingFiles

\* with_model_from_file(self, model_filepath_ref).  The result records the
\* argument as model_filepath; filename is the path the error carries.
with_model_from_file(self, model_filepath, fresh, r) ==
    IF ~exists(model_filepath)
    THEN [calls |-> SessionBuilder_drop(self), builder |-> Moved(self),
          session |-> NoSession,
          ret |-> [fn |-> "with_model_from_file", kind |-> "Err",
                   err |-> "FileDoesNotExists", status |-> "none",
                   model_filepath |-> model_filepath,
                   filename |-> model_filepath]]
    ELSE LET c == commit(self, "with_model_from_file", "CreateSession", fresh, r)
         IN  [c EXCEPT !.ret = [fn |-> c.ret.fn, kind |-> c.ret.kind,
                                err |-> c.ret.err, status |-> c.ret.status,
                                model_filepath |-> model_filepath]]

\* with_model_from_memory -> with_model_from_memory_monomorphized(self, _)
with_model_from_memory_monomorphized(self, fresh, r) ==
    commit(self, "with_model_from_memory", "CreateSessionFromArray", fresh, r)

\* impl Drop for Session: the native calls of dropping session s.
Session_drop(s) ==
    IF s.session_ptr = NULL
    THEN <<>>
    ELSE <<[op |-> "ReleaseSession", h |-> s.session_ptr]>>

(***************************************************************************)
(* The answers the native library may give.                                *)
(***************************************************************************)
OkIo(dims) ==
    [typeinfo |-> "null", typeinfo_null |-> FALSE, cast |-> "null",
     tensor_info_null |-> FALSE, elem |-> "null", elem_type |-> "FLOAT",
     count |-> "null", dims_status |-> "null", dims |-> dims]

\* The answers that make one step of extract_io fail.
BadIo(dims) ==
    {[OkIo(dims) EXCEPT !.typeinfo = "error", !.typeinfo_null = TRUE],
     [OkIo(dims) EXCEPT !.typeinfo_null = TRUE],
     [OkIo(dims) EXCEPT !.cast = "error", !.tensor_info_null = TRUE],
     [OkIo(dims) EXCEPT !.tensor_info_null = TRUE],
     [OkIo(dims) EXCEPT !.elem = "error"],
     [OkIo(dims) EXCEPT !.elem_type = "UNDEFINED"],
     [OkIo(dims) EXCEPT !.count = "error"],
     [OkIo(dims) EXCEPT !.dims_status = "error"],
     OkIo(<<>>)}

OkNode(dims) ==
    [name |-> "null", name_null |-> FALSE, name_utf8 |-> TRUE, io |-> OkIo(dims)]

BadNodes ==
    {[OkNode(<<Small(2)>>) EXCEPT !.name = "error", !.name_null = TRUE],
     [OkNode(<<Small(2)>>) EXCEPT !.name_null = TRUE],
     [OkNode(<<Small(2)>>) EXCEPT !.name_utf8 = FALSE]}
    \cup {[OkNode(<<Small(2)>>) EXCEPT !.io = b] : b \in BadIo(<<Small(2)>>)}

\* The graphs a committed model reports: nodes that extract, possibly
\* followed by one that does not.
GoodGraphs ==
    {<<OkNode(<<I64MinusOne, Small(2)>>)>>,
     <<OkNode(<<Small(2)>>), OkNode(<<I64MinusOne>>)>>}
BadGraphs ==
    {<<>>} \cup {<<b>> : b \in BadNodes}
    \cup {<<OkNode(<<Small(2)>>), b>> : b \in BadNodes}

OkCommit(ins, outs) ==
    [create |-> "null", session_null |-> FALSE, alloc |-> "null",
     alloc_null |-> FALSE, meminfo |-> TRUE, in_count |-> "null",
     out_count |-> "null", inputs |-> ins, outputs |-> outs]

CommitResponses ==
    LET g == <<OkNode(<<Small(2)>>)>>
        ok == OkCommit(g, g)
    IN  {[ok EXCEPT !.create = "error", !.session_null = TRUE],
         [ok EXCEPT !.session_null = TRUE],
         [ok EXCEPT !.alloc = "error", !.alloc_null = TRUE],
         [ok EXCEPT !.alloc_null = TRUE],
         [ok EXCEPT !.meminfo = FALSE],
         [ok EXCEPT !.in_count = "error"],
         [ok EXCEPT !.out_count = "error"]}
        \cup {OkCommit(i, g) : i \in BadGraphs}
        \cup {OkCommit(i, o) : i \in GoodGraphs, o \in GoodGraphs \cup BadGraphs}

(***************************************************************************)
(* Actions of the builder and session life cycle.                          *)
(***************************************************************************)
\* The native state after the calls of outcome o.
Called(o) ==
    LET n == Replay(Native, o.calls)
    IN  /\ options' = n.options
        /\ sessions' = n.sessions
        /\ stale' = n.stale
        /\ ncalls' = o.calls

NewBuilder ==
    /\ ~builder.live
    /\ Len(options) < MaxBuilders
    /\ \E a \in {<<"null", NextOptions>>, <<"null", NULL>>, <<"error", NULL>>} :
          LET o == SessionBuilder_new(a[1], a[2])
          IN  /\ Called(o)
              /\ builder' = o.builder
              /\ result' = o.ret
    /\ UNCHANGED <<session, io>>

Configured(o) ==
    /\ Called(o)
    /\ builder' = o.builder
    /\ result' = o.ret
    /\ UNCHANGED <<session, io>>

WithNumberThreads ==
    /\ builder.live
    /\ \E status \in Status : Configured(with_number_threads(builder, status))

WithEpLoader ==
    /\ builder.live
    /\ \E status \in Status : Configured(with_ep_loader(builder, status))

WithOptimizationLevel ==
    /\ builder.live
    /\ \E status \in Status : Configured(with_optimization_level(builder, status))

WithAllocator ==
    /\ builder.live
    /\ \E a \in AllocatorTypes : Configured(with_allocator(builder, a))

WithMemoryType ==
    /\ builder.live
    /\ \E m \in MemTypes : Configured(with_memory_type(builder, m))

\* The caller lets the builder go out of scope.
DropBuilder ==
    /\ builder.live
    /\ Configured([calls |-> SessionBuilder_drop(builder), builder |-> Moved(builder),
                   ret |-> Ok("drop_builder", "none")])

Committed(o) ==
    /\ Called(o)
    /\ builder' = o.builder
    /\ session' = o.session
    /\ result' = o.ret
    /\ UNCHANGED io

WithModelFromFile ==
    /\ builder.live
    /\ ~session.live
    /\ Len(sessions) < MaxSessions
    /\ \E path \in Paths, r \in CommitResponses :
          Committed(with_model_from_file(builder, path, NextSession, r))

WithModelFromMemory ==
    /\ builder.live
    /\ ~session.live
    /\ Len(sessions) < MaxSessions
    /\ \E r \in CommitResponses :
          Committed(with_model_from_memory_monomorphized(builder, NextSession, r))

\* The caller lets the session go out of scope.
DropSession ==
    /\ session.live
    /\ Called([calls |-> Session_drop(session)])
    /\ session' = NoSession
    /\ result' = Ok("drop_session", "none")
    /\ UNCHANGED <<builder, io>>

Init ==
    /\ options = <<>>
    /\ sessions = <<>>
    /\ stale = FALSE
    /\ builder = NoBuilder
    /\ session = NoSession
    /\ result = NoResult
    /\ ncalls = <<>>
    /\ io = NoIo

Next ==
    \/ NewBuilder
    \/ WithNumberThreads
    \/ WithEpLoader
    \/ WithOptimizationLevel
    \/ WithAllocator
    \/ WithMemoryType
    \/ DropBuilder
    \/ WithModelFromFile
    \/ WithModelFromMemory
    \/ DropSession

Spec == Init /\ [][Next]_vars

(***************************************************************************)
(* Properties of the builder and session life cycle.                       *)
(***************************************************************************)
Commits == {"with_model_from_file", "with_model_from_memory"}

\* C1: every session handle a create call handed out has been released
\* exactly once, unless the Session the caller owns still holds it.
C1_SessionReleasedOnce ==
    \A h \in 1..Len(sessions) :
        sessions[h] = IF session.live /\ session.session_ptr = h THEN 0 ELSE 1

\* C2: every session options handle SessionBuilder::new handed out has been
\* released exactly once as soon as no builder the caller owns holds it, and
\* not at all before.
C2_OptionsReleasedOnce ==
    \A h \in 1..Len(options) :
        options[h] = IF builder.live /\ builder.session_options_ptr = h THEN 0 ELSE 1

C2_Witness ==
    /\ result.fn \in Commits
    /\ result.kind = "Err"
    /\ result.err = "Allocator"
    /\ ~builder.live
    /\ options[builder.session_options_ptr] = 1

\* C3: no native call ever received a session options handle that had been
\* released before the call.
C3_NoReleasedOptionsUsed == ~stale

C3_Witness ==
    /\ result.fn = "with_model_from_memory"
    /\ Len(ncalls) = 2
    /\ ncalls[1].op = "CreateSessionFromArray"
    /\ ncalls[2].op = "ReleaseSessionOptions"
    /\ ncalls[1].h = ncalls[2].h
    /\ options[ncalls[2].h] = 1

\* C4: a configuration method that makes a native call returns Ok exactly
\* when the status of that call is null.
C4_ConfigErrOnErrorStatus ==
    result.fn \in {"with_number_threads", "with_optimization_level", "with_ep_loader"}
        => (result.kind = "Ok" <=> result.status = "null")

\* C5: the memory info of a committed Session has the allocator type and the
\* memory type of the builder it was committed from.
C5_MemoryInfoFromBuilder ==
    (result.fn \in Commits /\ result.kind = "Ok")
        => session.memory_info = [allocator |-> builder.allocator,
                                  memory_type |-> builder.memory_type]

\* C8: with_model_from_file on a path that does not exist returns
\* Err(FileDoesNotExists) carrying the path, makes no create call and
\* releases the options handle of the builder.
C8_MissingFile ==
    (result.fn = "with_model_from_file" /\ result.model_filepath \notin ExistingFiles)
        => /\ result.kind = "Err"
           /\ result.err = "FileDoesNotExists"
           /\ result.filename = result.model_filepath
           /\ \A k \in 1..Len(ncalls) : ncalls[k].op \notin SessionCreators
           /\ ~session.live
           /\ ncalls = <<[op |-> "ReleaseSessionOptions",
                         h |-> builder.session_options_ptr]>>
           /\ options[builder.session_options_ptr] = 1

C8_Witness ==
    /\ result.fn = "with_model_from_file"
    /\ result.model_filepath = "missing.onnx"
    /\ result.err = "FileDoesNotExists"
    /\ options[builder.session_options_ptr] = 1

(***************************************************************************)
(* Session::run.                                                           *)
(***************************************************************************)
Min(a, b) == IF a <= b THEN a ELSE b

\* Mutant of validate_input_shapes: the check of the number of dimensions
\* of each array left out.
validate_input_shapes_no_rank(self, input_arrays) ==
    LET zipped == 1..Min(Len(input_arrays), Len(self.inputs))
        inputs_different_length ==
            \E i \in zipped : Len(input_arrays[i]) # Len(self.inputs[i].dimensions)
        inputs_different_shape ==
            \E i \in zipped :
                LET l_shape == input_arrays[i]
                    r_shape == self.inputs[i].dimensions
                IN  \E j \in 1..Min(Len(l_shape), Len(r_shape)) :
                        IF r_shape[j] # None
                        THEN AsUsize(r_shape[j][1]) # l_shape[j]
                        ELSE FALSE
    IN  IF Len(input_arrays) # Len(self.inputs)
        THEN [ok |-> FALSE, err |-> "NonMatchingDimensions", variant |-> "InputsCount"]
        ELSE IF inputs_different_shape
        THEN [ok |-> FALSE, err |-> "NonMatchingDimensions", variant |-> "InputsLength"]
        ELSE [ok |-> TRUE]

\* Session::validate_input_shapes: input_arrays are the shapes of the arrays,
\* each a sequence of usize.  The three checks, each with its early return.
validate_input_shapes(self, input_arrays) ==
    LET zipped == 1..Min(Len(input_arrays), Len(self.inputs))
        inputs_different_length ==
            \E i \in zipped : Len(input_arrays[i]) # Len(self.inputs[i].dimensions)
        inputs_different_shape ==
            \E i \in zipped :
                LET l_shape == input_arrays[i]
                    r_shape == self.inputs[i].dimensions
                IN  \E j \in 1..Min(Len(l_shape), Len(r_shape)) :
                        IF r_shape[j] # None
                        THEN AsUsize(r_shape[j][1]) # l_shape[j]
                        ELSE FALSE
    IN  IF Len(input_arrays) # Len(self.inputs)
        THEN [ok |-> FALSE, err |-> "NonMatchingDimensions", variant |-> "InputsCount"]
        ELSE IF inputs_different_length
        THEN [ok |-> FALSE, err |-> "NonMatchingDimensions", variant |-> "InputsLength"]
        ELSE IF inputs_different_shape
        THEN [ok |-> FALSE, err |-> "NonMatchingDimensions", variant |-> "InputsLength"]
        ELSE [ok |-> TRUE]

\* The closure of run that turns the k-th output value into an owned tensor:
\* r answers GetTensorTypeAndShape and get_tensor_dimensions.
extract_output_tensor(r) ==
    LET dims == get_tensor_dimensions(r)
    IN  IF ~status_to_result(r.shape) THEN [ok |-> FALSE, err |-> "GetTensorTypeAndShape"]
        ELSE IF ~dims.ok THEN dims
        ELSE [ok |-> TRUE]

\* Session::run(self, input_arrays).  rr answers what run calls:
\*   rr.tensors[i]  whether OrtTensor::from_array builds the i-th input tensor,
\*   rr.run         the status of the native Run,
\*   rr.outs[k]     the answers about the k-th output value.
\* The result counts the input-name C strings handed over with into_raw
\* (raw_names) and taken back with from_raw (freed_names), the output values
\* the native Run produced (values), those returned in owned tensors
\* (returned) and those released by dropping an owned tensor (released).
\* When the k-th output fails, collect drops the k-1 owned tensors built so
\* far, which releases their values; the k-th value and the ones after it
\* are still raw pointers.  OrtOwnedTensorExtractor::extract is taken to
\* succeed.
run(self, input_arrays, rr) ==
    LET fn == "run"
        valid == validate_input_shapes(self, input_arrays)
        n_in == Len(self.inputs)
        n_out == Len(self.outputs)
        tensors_ok == \A i \in 1..Len(input_arrays) : rr.tensors[i]
        ex == [k \in 1..n_out |-> extract_output_tensor(rr.outs[k])]
        bad == {k \in 1..n_out : ~ex[k].ok}
        first_bad == CHOOSE k \in bad : \A m \in bad : k <= m
        base == [fn |-> fn, args |-> input_arrays, kind |-> "Err", err |-> "none",
                 validated |-> FALSE, run_status |-> "none",
                 raw_names |-> 0, freed_names |-> 0,
                 values |-> 0, returned |-> 0, released |-> 0]
    IN  IF ~valid.ok
        THEN [base EXCEPT !.err = valid.err]
        ELSE IF ~tensors_ok
        THEN [base EXCEPT !.err = "CreateTensorWithData", !.validated = TRUE,
                          !.raw_names = n_in]
        ELSE IF ~status_to_result(rr.run)
        THEN [base EXCEPT !.err = "Run", !.validated = TRUE, !.run_status = rr.run,
                          !.raw_names = n_in]
        ELSE IF bad # {}
        THEN [base EXCEPT !.err = ex[first_bad].err, !.validated = TRUE,
                          !.run_status = rr.run,
                          !.raw_names = n_in, !.freed_names = n_in,
                          !.values = n_out, !.released = first_bad - 1]
        ELSE [base EXCEPT !.kind = "Ok", !.validated = TRUE, !.run_status = rr.run,
                          !.raw_names = n_in, !.freed_names = n_in,
                          !.values = n_out, !.returned = n_out]

(***************************************************************************)
(* Session::run on a committed session.                                    *)
(***************************************************************************)
SeqsUpTo(S, lo, hi) == UNION {[1..n -> S] : n \in lo..hi}

\* Dimensions a model reports, and the sizes of the arrays given to run.
RunModelDims == {I64MinusOne, Small(2)}
ArrayDims == {Small(1), Small(2)}

RunNodes ==
    {[io_type |-> "FLOAT", dimensions |-> [j \in 1..Len(d) |-> StoreDim(d[j])]] :
        d \in SeqsUpTo(RunModelDims, 1, MaxDims)}

ArrayShapes == SeqsUpTo(ArrayDims, 0, MaxDims)

OkOut == [shape |-> "null", count |-> "null", dims_status |-> "null",
          dims |-> <<Small(2)>>]
BadOuts ==
    {[OkOut EXCEPT !.shape = "error"],
     [OkOut EXCEPT !.count = "error"],
     [OkOut EXCEPT !.dims = <<>>],
     [OkOut EXCEPT !.dims_status = "error"]}

\* Answers to a run with n_args arrays on a session of n_out outputs: all
\* well, or one step failing.
RunResponses(n_args, n_out) ==
    LET ok == [tensors |-> [i \in 1..n_args |-> TRUE], run |-> "null",
               outs |-> [k \in 1..n_out |-> OkOut]]
    IN  {ok, [ok EXCEPT !.run = "error"]}
        \cup {[ok EXCEPT !.tensors[i] = FALSE] : i \in 1..n_args}
        \cup {[ok EXCEPT !.outs[k] = b] : k \in 1..n_out, b \in BadOuts}

\* run leaves the session as it found it, so the first run on a session
\* shows what every later one does.
Run ==
    /\ session.live
    /\ result.fn # "run"
    /\ \E input_arrays \in SeqsUpTo(ArrayShapes, 0, MaxInputs) :
          \E rr \in RunResponses(Len(input_arrays), Len(session.outputs)) :
              result' = run(session, input_arrays, rr)
    /\ ncalls' = <<>>
    /\ UNCHANGED <<options, sessions, stale, builder, session, io>>

\* A session as a successful commit leaves it: its builder consumed and its
\* options released, its inputs and outputs as the model reports them.
InitRun ==
    /\ options = <<1>>
    /\ sessions = <<0>>
    /\ stale = FALSE
    /\ builder = [live |-> FALSE, session_options_ptr |-> 1,
                  allocator |-> "Arena", memory_type |-> "Default"]
    /\ \E ins \in SeqsUpTo(RunNodes, 1, MaxInputs),
          n_out \in 1..MaxOutputs :
          session = [live |-> TRUE, session_ptr |-> 1, allocator_ptr |-> 1,
                     memory_info |-> [allocator |-> "Arena", memory_type |-> "Default"],
                     inputs |-> ins,
                     outputs |-> [k \in 1..n_out |->
                                     [io_type |-> "FLOAT",
                                      dimensions |-> <<Some(AsU32(Small(2)))>>]]]
    /\ result = Ok("with_model_from_memory", "null")
    /\ ncalls = <<>>
    /\ io = NoIo

NextRun == Run

SpecRun == InitRun /\ [][NextRun]_vars

\* The three conditions on the arrays of a run, as the claim states them.
SameCount(arrays, inputs) == Len(arrays) = Len(inputs)
SameRanks(arrays, inputs) ==
    \A i \in 1..Len(inputs) : Len(arrays[i]) = Len(inputs[i].dimensions)
FixedDimsEqual(arrays, inputs) ==
    \A i \in 1..Len(inputs) : \A j \in 1..Len(inputs[i].dimensions) :
        LET m == inputs[i].dimensions[j]
            a == arrays[i][j]
        IN  m # None => (a[1] = 0 /\ a[2] = 0 /\ a[3] = m[1][1] /\ a[4] = m[1][2])
ShapesMatch(arrays, inputs) ==
    /\ SameCount(arrays, inputs)
    /\ SameRanks(arrays, inputs)
    /\ FixedDimsEqual(arrays, inputs)

\* C6 as stated: validation passes and the native Run is called exactly when
\* the three conditions hold, and otherwise run returns NonMatchingDimensions.
C6_AcceptedIffShapesMatch ==
    result.fn = "run" =>
        /\ (result.validated /\ result.run_status # "none")
               <=> ShapesMatch(result.args, session.inputs)
        /\ ~ShapesMatch(result.args, session.inputs)
               => (result.kind = "Err" /\ result.err = "NonMatchingDimensions")

\* C6 amended: validation passes exactly when the three conditions hold;
\* otherwise run returns NonMatchingDimensions without calling the native
\* Run; when validation passes, the native Run is called exactly when every
\* input tensor was built.
C6_ValidatedIffShapesMatch ==
    result.fn = "run" =>
        /\ result.validated <=> ShapesMatch(result.args, session.inputs)
        /\ ~result.validated
               => /\ result.kind = "Err"
                  /\ result.err = "NonMatchingDimensions"
                  /\ result.run_status = "none"
        /\ result.validated
               => (result.run_status # "none" <=> result.err # "CreateTensorWithData")

C6_Witness ==
    /\ result.fn = "run"
    /\ Len(session.inputs) = 2
    /\ session.inputs[1].dimensions = <<None>>
    /\ session.inputs[2].dimensions = <<Some(AsU32(Small(2)))>>
    /\ result.args = <<<<Small(1)>>, <<Small(2)>>>>
    /\ result.validated
    /\ result.run_status = "null"

\* C9: once the native Run has succeeded, every output value it produced is
\* returned in an owned tensor or released before run returns.
C9_OutputValuesAccounted ==
    (result.fn = "run" /\ result.run_status = "null")
        => result.returned + result.released = result.values

\* C10: every input-name C string handed over with into_raw is taken back
\* with from_raw before run returns.
C10_InputNamesFreed ==
    result.fn = "run" => result.freed_names = result.raw_names

(***************************************************************************)
(* dangerous::extract_io on the dimensions the native library reports.     *)
(***************************************************************************)
\* i64 values with every limb at an end of its range: among them -1, -2,
\* 0, 1, 2^32 and 2^32 + 1.
Limbs == {0, 1, LimbTop - 1, LimbTop}
I64Values == {<<a, b, c, d>> : a \in Limbs, b \in Limbs, c \in Limbs, d \in Limbs}

IoResponses ==
    {OkIo(dims) : dims \in SeqsUpTo(I64Values, 1, MaxDims)}
    \cup BadIo(<<Small(2)>>)

\* extract_io is called with answers r; io keeps the answers and the result.
ExtractIo ==
    /\ \E r \in IoResponses : io' = [fn |-> "extract_io", r |-> r, ret |-> extract_io(r)]
    /\ UNCHANGED <<options, sessions, stale, builder, session, result, ncalls>>

NextIo == ExtractIo

SpecIo == Init /\ [][NextIo]_vars

\* C7: a reported dimension d is stored as None exactly when d is -1, and
\* otherwise as Some(v) with v numerically equal to d.
C7_DimensionsStoredExactly ==
    (io.fn = "extract_io" /\ io.ret.ok) =>
        \A j \in 1..Len(io.r.dims) :
            LET d == io.r.dims[j]
                stored == io.ret.dimensions[j]
            IN  /\ stored = None <=> d = I64MinusOne
                /\ stored # None =>
                      (d[1] = 0 /\ d[2] = 0 /\ d[3] = stored[1][1] /\ d[4] = stored[1][2])

\* C11: every type-info handle extract_io obtained has been released with
\* ReleaseTypeInfo exactly once when extract_io returns, Ok or Err.
C11_TypeInfoReleasedOnce ==
    io.fn = "extract_io" => io.ret.released = io.ret.typeinfo

====
